---------------------------- MODULE Spec2Model ----------------------------
(***************************************************************************)
(* SignBridge backend (backend/server.py): the rule-based GestureClassifier,*)
(* the text-to-sign phrase lookup and the request handlers around them.     *)
(*                                                                          *)
(* Numbers.  Coordinates and distances are integers in hundredths of the    *)
(* normalised image unit (30 is 0.3); confidences are integers in           *)
(* hundredths (80 is 0.8).  The pose sets below keep fingertip layouts off  *)
(* the exact 0.1 centroid-distance boundary of _check_more, where the       *)
(* program's floating-point square root, not the geometry, decides.         *)
(***************************************************************************)
EXTENDS Integers, Sequences, FiniteSets

VARIABLES
    gestures,          \* GestureClassifier.gestures: rule names in insertion order
    SIGN_ANIMATIONS,   \* the phrase catalog: <<phrase, key>> pairs in definition order
    landmarks,         \* predict's argument: None, or Some(list of landmarks)
    pc,                \* position inside GestureClassifier.predict
    idx,               \* position of the for loop in gestures.items()
    best_gesture,      \* predict's local
    best_confidence,   \* predict's local
    confidence,        \* predict's local: what the last check function returned
    evaluated,         \* the rules whose check function has been called, in order
    result,            \* what predict returned: None until then, Some(<<name, confidence>>)
    conversations,     \* db.conversations: the inserted entries, in insertion order
    inflight,          \* handlers suspended at `await db.conversations.insert_one`
    response,          \* the last HTTP response sent (NoResponse before the first)
    clock              \* number of ConversationEntry objects built (ids, timestamps)

vars == <<gestures, SIGN_ANIMATIONS, landmarks, pc, idx, best_gesture,
          best_confidence, confidence, evaluated, result, conversations, inflight,
          response, clock>>

\* Python's Optional: None is the empty tuple, a value v is Some(v).
None == <<>>
Some(v) == <<v>>

(***************************************************************************)
(* Bounds of the model.                                                    *)
(***************************************************************************)
MaxExtraLandmarks == 1   \* poses carry up to 21 + MaxExtraLandmarks landmarks
MaxTextLen == 3          \* texts over TextAlphabet have up to MaxTextLen characters
MaxRequests == 2         \* predict and text-to-sign requests accepted in one run

(***************************************************************************)
(* Program constants.                                                      *)
(***************************************************************************)
MinLandmarks == 21
DefaultConfidence == 10
ConfidenceCap == 95
\* Mutant: a rule's non-match value no higher than the default.
NoMatchDefault == DefaultConfidence
NoMatch == 20
UpperFrameY == 30
MiddleLowY == 30
MiddleHighY == 70
MouthY == 40
CloseDistance == 10
NumTips == 5
SupportedConfidence == 90
UnsupportedConfidence == 10
HistoryLimit == 50

RuleBank == <<"hello", "thank_you", "yes", "no", "help", "stop", "please",
              "water", "more", "finished">>

(***************************************************************************)
(* Landmarks.  A landmark is <<x, y, z>>; Python's landmarks[i][k] is       *)
(* Coord(l, i, k), both indices counted from 0 as in the source.            *)
(***************************************************************************)
Coord(l, i, k) == l[i + 1][k + 1]

tip_ids == <<4, 8, 12, 16, 20>>
pip_ids == <<3, 6, 10, 14, 18>>

RECURSIVE SumSeq(_)
SumSeq(s) == IF s = <<>> THEN 0 ELSE Head(s) + SumSeq(Tail(s))

\* sum(...) of a list of booleans: the number of True ones
Count(bools) == Cardinality({i \in DOMAIN bools : bools[i]})

AnyTrue(bools) == \E i \in 1..Len(bools) : bools[i]

\* Python's extended[k:]
From(s, k) == SubSeq(s, k + 1, Len(s))

\* Mutant: the finger test with the image's y axis taken as growing upward.
_get_finger_extended_yup(l) ==
    [i \in 1..NumTips |->
        IF i = 1 THEN Coord(l, tip_ids[i], 0) > Coord(l, pip_ids[i], 0)
                 ELSE Coord(l, tip_ids[i], 1) > Coord(l, pip_ids[i], 1)]

_get_finger_extended(l) ==
    [i \in 1..NumTips |->
        IF i = 1 THEN Coord(l, tip_ids[i], 0) > Coord(l, pip_ids[i], 0)
                 ELSE Coord(l, tip_ids[i], 1) < Coord(l, pip_ids[i], 1)]

_check_hello(l) ==
    LET extended == _get_finger_extended(l)
    IN  IF Count(extended) >= 4 THEN 80 ELSE NoMatch

_check_thank_you(l) ==
    LET palm_y == Coord(l, 0, 1)
    IN  IF palm_y < UpperFrameY THEN 70 ELSE NoMatch

_check_yes(l) ==
    LET extended == _get_finger_extended(l)
    IN  IF extended[1] /\ ~AnyTrue(From(extended, 1)) THEN 80 ELSE NoMatch

_check_no(l) ==
    LET extended == _get_finger_extended(l)
    IN  IF ~extended[1] /\ extended[2] /\ ~AnyTrue(From(extended, 2))
        THEN 70 ELSE NoMatch

_check_help(l) ==
    LET extended == _get_finger_extended(l)
        palm_z == Coord(l, 0, 2)
    IN  IF Count(extended) >= 3 /\ palm_z < 0 THEN 60 ELSE NoMatch

\* Mutant: the thumb counted among the fingers of the stop test.
_check_stop_thumb(l) ==
    LET extended == [i \in 1..NumTips |->
                        IF i = 1 THEN Coord(l, tip_ids[i], 0) > Coord(l, pip_ids[i], 0)
                                 ELSE Coord(l, tip_ids[i], 1) < Coord(l, pip_ids[i], 1)]
    IN  IF Count(extended) >= 3 THEN 70 ELSE NoMatch

_check_stop(l) ==
    LET extended == _get_finger_extended(l)
    IN  IF Count(From(extended, 1)) >= 3 THEN 70 ELSE NoMatch

_check_please(l) ==
    LET extended == _get_finger_extended(l)
        palm_y == Coord(l, 0, 1)
    IN  IF Count(extended) >= 3 /\ MiddleLowY < palm_y /\ palm_y < MiddleHighY
        THEN 60 ELSE NoMatch

_check_water(l) ==
    LET extended == _get_finger_extended(l)
        palm_y == Coord(l, 0, 1)
    IN  IF Count(extended) <= 2 /\ palm_y < MouthY THEN 60 ELSE NoMatch

\* Mutant: the closeness limit written as 0.01.
_check_more_tight(l) ==
    LET fingertips == [i \in 1..NumTips |-> l[tip_ids[i] + 1]]
        sum_x == SumSeq([i \in 1..NumTips |-> fingertips[i][1]])
        sum_y == SumSeq([i \in 1..NumTips |-> fingertips[i][2]])
        d2(tip) == (NumTips * tip[1] - sum_x) * (NumTips * tip[1] - sum_x)
                 + (NumTips * tip[2] - sum_y) * (NumTips * tip[2] - sum_y)
    IN  IF \A i \in 1..NumTips : d2(fingertips[i]) < NumTips * NumTips
        THEN 70 ELSE NoMatch

\* center = sum / 5 and d = sqrt(dx^2 + dy^2) < 0.1, kept in integers:
\* 5*d is the length of (5*tip - sum), and 5*d < 5*0.1 iff its square is
\* below (5*0.1)^2.
_check_more(l) ==
    LET fingertips == [i \in 1..NumTips |-> l[tip_ids[i] + 1]]
        sum_x == SumSeq([i \in 1..NumTips |-> fingertips[i][1]])
        sum_y == SumSeq([i \in 1..NumTips |-> fingertips[i][2]])
        d2(tip) == (NumTips * tip[1] - sum_x) * (NumTips * tip[1] - sum_x)
                 + (NumTips * tip[2] - sum_y) * (NumTips * tip[2] - sum_y)
        limit2 == (NumTips * CloseDistance) * (NumTips * CloseDistance)
    IN  IF \A i \in 1..NumTips : d2(fingertips[i]) < limit2
        THEN 70 ELSE NoMatch

_check_finished(l) ==
    LET extended == _get_finger_extended(l)
    IN  IF Count(extended) >= 3 THEN 50 ELSE NoMatch

\* self.gestures[gesture_name](landmarks)
check_func(gesture_name, l) ==
    CASE gesture_name = "hello"     -> _check_hello(l)
      [] gesture_name = "thank_you" -> _check_thank_you(l)
      [] gesture_name = "yes"       -> _check_yes(l)
      [] gesture_name = "no"        -> _check_no(l)
      [] gesture_name = "help"      -> _check_help(l)
      [] gesture_name = "stop"      -> _check_stop(l)
      [] gesture_name = "please"    -> _check_please(l)
      [] gesture_name = "water"     -> _check_water(l)
      [] gesture_name = "more"      -> _check_more(l)
      [] gesture_name = "finished"  -> _check_finished(l)

(***************************************************************************)
(* GestureClassifier.predict.  predict_guard is line 81, predict_step one   *)
(* turn of the for loop (lines 88-91), predict_result line 93.              *)
(***************************************************************************)
Min(a, b) == IF a < b THEN a ELSE b

\* Mutant: `if not landmarks`, the length test forgotten.
predict_guard_nolen(arg) ==
    \/ arg = None
    \/ Len(arg[1]) = 0

\* `not landmarks or len(landmarks) < 21` on an Optional argument
predict_guard(arg) ==
    \/ arg = None
    \/ Len(arg[1]) = 0
    \/ Len(arg[1]) < MinLandmarks

\* Mutant: the fallback returned with confidence 0.0.
predict_early_zero == <<"unknown", 0>>

predict_early == <<"unknown", 10>>

\* Mutant: the running best replaced on a tie too.
predict_step_ties(best, gesture_name, l) ==
    LET c == check_func(gesture_name, l)
    IN  IF c >= best[2] THEN <<gesture_name, c>> ELSE best

predict_step(best, gesture_name, l) ==
    LET c == check_func(gesture_name, l)
    IN  IF c > best[2] THEN <<gesture_name, c>> ELSE best

predict_result(best) == <<best[1], Min(best[2], ConfidenceCap)>>

RECURSIVE predict_loop(_, _, _, _)
predict_loop(bank, i, best, l) ==
    IF i > Len(bank) THEN best
    ELSE predict_loop(bank, i + 1, predict_step(best, bank[i], l), l)

\* The whole call, on the rule bank `bank`.
GestureClassifier_predict(bank, arg) ==
    IF predict_guard(arg) THEN predict_early
    ELSE predict_result(predict_loop(bank, 1, <<"unknown", DefaultConfidence>>, arg[1]))

(***************************************************************************)
(* Poses.  A pose is built from a fingertip layout (the five tips' x, y),   *)
(* one offset per finger placing its joint relative to its tip (along x for *)
(* the thumb, along y for the others), and the wrist's y and z.  Landmarks  *)
(* the classifier never reads sit at Filler.                                *)
(***************************************************************************)
Filler == <<50, 50, 0>>

TipLayouts == <<
    << <<50, 50>>, <<50, 50>>, <<50, 50>>, <<50, 50>>, <<50, 50>> >>,
    << <<52, 50>>, <<48, 50>>, <<50, 52>>, <<50, 48>>, <<51, 51>> >>,
    << <<59, 50>>, <<41, 50>>, <<50, 59>>, <<50, 41>>, <<50, 50>> >>,
    << <<61, 50>>, <<39, 50>>, <<50, 61>>, <<50, 39>>, <<50, 50>> >>,
    << <<50, 50>>, <<50, 50>>, <<50, 50>>, <<50, 50>>, <<50, 63>> >>,
    << <<10, 20>>, <<30, 20>>, <<50, 20>>, <<70, 20>>, <<90, 20>> >> >>

JointOffsets == {-5, 0, 5}
WristYs == {29, 30, 39, 40, 70}
WristZs == {-1, 0, 1}

FingerOf(id, ids) == CHOOSE f \in 1..NumTips : ids[f] = id

MkPose(layout, offs, wy, wz) ==
    [n \in 1..MinLandmarks |->
        LET id == n - 1
        IN  IF id = 0 THEN <<50, wy, wz>>
            ELSE IF \E f \in 1..NumTips : tip_ids[f] = id
                 THEN LET f == FingerOf(id, tip_ids)
                      IN  <<layout[f][1], layout[f][2], 0>>
            ELSE IF \E f \in 1..NumTips : pip_ids[f] = id
                 THEN LET f == FingerOf(id, pip_ids)
                      IN  IF f = 1
                          THEN <<layout[f][1] + offs[f], layout[f][2], 0>>
                          ELSE <<layout[f][1], layout[f][2] + offs[f], 0>>
            ELSE Filler]

FullPoses ==
    {MkPose(TipLayouts[k], offs, wy, wz) :
        k \in 1..Len(TipLayouts), offs \in [1..NumTips -> JointOffsets],
        wy \in WristYs, wz \in WristZs}

\* The poses whose five joints share one offset; cut short or padded below.
SamplePoses ==
    {MkPose(TipLayouts[k], [f \in 1..NumTips |-> o], wy, -1) :
        k \in 1..Len(TipLayouts), o \in JointOffsets, wy \in WristYs}

ShortPoses == {SubSeq(p, 1, n) : p \in SamplePoses, n \in 0..(MinLandmarks - 1)}

LongPoses ==
    {p \o [i \in 1..k |-> Filler] : p \in SamplePoses, k \in 1..MaxExtraLandmarks}

Poses == FullPoses \cup ShortPoses \cup LongPoses

PredictArgs == {None} \cup {Some(p) : p \in Poses}

(***************************************************************************)
(* Text.  A string is a sequence of one-character strings.                  *)
(***************************************************************************)
UpperLetters == <<"A", "B", "C", "D", "E", "F", "G", "H", "I", "J", "K", "L", "M",
                  "N", "O", "P", "Q", "R", "S", "T", "U", "V", "W", "X", "Y", "Z">>
LowerLetters == <<"a", "b", "c", "d", "e", "f", "g", "h", "i", "j", "k", "l", "m",
                  "n", "o", "p", "q", "r", "s", "t", "u", "v", "w", "x", "y", "z">>
Whitespace == {" ", "\t", "\n"}

char_lower(ch) ==
    IF \E k \in 1..Len(UpperLetters) : UpperLetters[k] = ch
    THEN LowerLetters[CHOOSE k \in 1..Len(UpperLetters) : UpperLetters[k] = ch]
    ELSE ch

\* str.lower()
str_lower(t) == [i \in 1..Len(t) |-> char_lower(t[i])]

\* str.strip()
RECURSIVE str_lstrip(_)
str_lstrip(t) ==
    IF t # <<>> /\ Head(t) \in Whitespace THEN str_lstrip(Tail(t)) ELSE t

RECURSIVE str_rstrip(_)
str_rstrip(t) ==
    IF t # <<>> /\ t[Len(t)] \in Whitespace
    THEN str_rstrip(SubSeq(t, 1, Len(t) - 1)) ELSE t

str_strip(t) == str_rstrip(str_lstrip(t))

\* Python's `a in b` on strings
str_in(a, b) ==
    \E i \in 0..(Len(b) - Len(a)) : SubSeq(b, i + 1, i + Len(a)) = a

SignAnimations == <<
    << <<"h", "e", "l", "l", "o">>,
       "wave_hello.gif" >>,
    << <<"t", "h", "a", "n", "k", " ", "y", "o", "u">>,
       "thank_you.gif" >>,
    << <<"y", "e", "s">>,
       "thumbs_up.gif" >>,
    << <<"n", "o">>,
       "shake_no.gif" >>,
    << <<"h", "e", "l", "p">>,
       "help_gesture.gif" >>,
    << <<"s", "t", "o", "p">>,
       "stop_hand.gif" >>,
    << <<"p", "l", "e", "a", "s", "e">>,
       "please_gesture.gif" >>,
    << <<"w", "a", "t", "e", "r">>,
       "water_drink.gif" >>,
    << <<"m", "o", "r", "e">>,
       "more_gesture.gif" >>,
    << <<"f", "i", "n", "i", "s", "h", "e", "d">>,
       "finished_gesture.gif" >>,
    << <<"g", "o", "o", "d", " ", "m", "o", "r", "n", "i", "n", "g">>,
       "good_morning.gif" >>,
    << <<"h", "o", "w", " ", "a", "r", "e", " ", "y", "o", "u">>,
       "how_are_you.gif" >>,
    << <<"i", " ", "a", "m", " ", "f", "i", "n", "e">>,
       "i_am_fine.gif" >>,
    << <<"n", "i", "c", "e", " ", "t", "o", " ", "m", "e", "e", "t", " ", "y", "o", "u">>,
       "nice_to_meet.gif" >> >>

(***************************************************************************)
(* text_to_sign, lines 256-271: the animation key and the supported flag.   *)
(***************************************************************************)
\* Mutant: only `phrase in text_lower` tried in the partial match.
partial_match_oneway(phrase, text_lower) == str_in(phrase, text_lower)

partial_match(phrase, text_lower) ==
    str_in(phrase, text_lower) \/ str_in(text_lower, phrase)

lookup(catalog, request_text) ==
    LET text_lower == str_strip(str_lower(request_text))
        exact == {i \in 1..Len(catalog) : catalog[i][1] = text_lower}
        partial == {i \in 1..Len(catalog) : partial_match(catalog[i][1], text_lower)}
    IN  IF exact # {}
        THEN <<catalog[CHOOSE i \in exact : TRUE][2], TRUE>>
        ELSE IF partial # {}
        THEN <<catalog[CHOOSE i \in partial : \A j \in partial : i <= j][2], TRUE>>
        ELSE <<"not_supported.gif", FALSE>>

(***************************************************************************)
(* Request texts: every string of up to MaxTextLen characters over          *)
(* TextAlphabet, and the sample texts.                                      *)
(***************************************************************************)
TextAlphabet == {"n", "o", "y", "e", "s", "N", " "}

RECURSIVE StringsUpTo(_)
StringsUpTo(n) ==
    IF n = 0 THEN {<<>>}
    ELSE LET shorter == StringsUpTo(n - 1)
         IN  shorter \cup {Append(t, ch) : t \in shorter, ch \in TextAlphabet}

SampleTexts == {
    <<"H", "e", "l", "l", "o">>,
    <<" ", "h", "e", "l", "l", "o", " ">>,
    <<"h", "e", "l", "l", "o", " ", "t", "h", "e", "r", "e">>,
    <<"i", " ", "w", "o", "u", "l", "d", " ", "l", "i", "k", "e", " ", "s", "o", "m", "e", " ", "w", "a", "t", "e", "r", " ", "p", "l", "e", "a", "s", "e">>,
    <<"x", "y", "z", "z", "y">>,
    <<"u", "n", "s", "u", "p", "p", "o", "r", "t", "e", "d", " ", "p", "h", "r", "a", "s", "e">>,
    <<"T", "h", "a", "n", "k", " ", "Y", "o", "u">>,
    <<"g", "o", "o", "d", " ", "m", "o", "r", "n", "i", "n", "g">>,
    <<"n", "i", "c", "e", " ", "t", "o", " ", "m", "e", "e", "t", " ", "y", "o", "u">>,
    <<"y", "o", "u">>,
    <<"f", "i", "n">> }

Texts == StringsUpTo(MaxTextLen) \cup SampleTexts

\* No response sent yet.
NoResponse == [handler |-> "none", request |-> <<>>, status |-> 0, body |-> <<>>]

(***************************************************************************)
(* One call of GestureClassifier.predict, a loop turn at a time.            *)
(***************************************************************************)
InitPredict ==
    /\ gestures = RuleBank
    /\ SIGN_ANIMATIONS = SignAnimations
    /\ landmarks \in PredictArgs
    /\ pc = "call"
    /\ idx = 0
    /\ best_gesture = "unknown"
    /\ best_confidence = 0
    /\ confidence = 0
    /\ evaluated = <<>>
    /\ result = None
    /\ conversations = <<>>
    /\ inflight = <<>>
    /\ response = NoResponse
    /\ clock = 0

predict_enter ==
    /\ pc = "call"
    /\ IF predict_guard(landmarks)
       THEN /\ result' = Some(predict_early)
            /\ pc' = "done"
            /\ UNCHANGED <<idx, best_gesture, best_confidence>>
       ELSE /\ best_gesture' = "unknown"
            /\ best_confidence' = DefaultConfidence
            /\ idx' = 1
            /\ pc' = "loop"
            /\ UNCHANGED result
    /\ UNCHANGED <<gestures, SIGN_ANIMATIONS, landmarks, confidence, evaluated,
                   conversations, inflight, response, clock>>

predict_iterate ==
    /\ pc = "loop"
    /\ idx <= Len(gestures)
    /\ confidence' = check_func(gestures[idx], landmarks[1])
    /\ LET best == predict_step(<<best_gesture, best_confidence>>, gestures[idx], landmarks[1])
       IN  /\ best_gesture' = best[1]
           /\ best_confidence' = best[2]
    /\ evaluated' = Append(evaluated, gestures[idx])
    /\ idx' = idx + 1
    /\ UNCHANGED <<gestures, SIGN_ANIMATIONS, landmarks, pc, result,
                   conversations, inflight, response, clock>>

predict_return ==
    /\ pc = "loop"
    /\ idx > Len(gestures)
    /\ result' = Some(predict_result(<<best_gesture, best_confidence>>))
    /\ pc' = "done"
    /\ UNCHANGED <<gestures, SIGN_ANIMATIONS, landmarks, idx, best_gesture,
                   best_confidence, confidence, evaluated, conversations,
                   inflight, response, clock>>

NextPredict == predict_enter \/ predict_iterate \/ predict_return

SpecPredict == InitPredict /\ [][NextPredict]_vars

(***************************************************************************)
(* The request handlers.  A handler that stores a conversation entry is     *)
(* suspended at `await db.conversations.insert_one(...)`: insert_one is the  *)
(* database applying the insert, respond the handler resuming and returning *)
(* its response.  Everything before the await runs without interruption.    *)
(***************************************************************************)
HTTPException(status_code, detail) == [status_code |-> status_code, detail |-> detail]

\* ConversationEntry(...): the n-th entry built takes its id and its
\* timestamp from the clock.
ConversationEntry(n, message, type, conf) ==
    [id |-> n, message |-> message, type |-> type, confidence |-> conf, timestamp |-> n]

Suspended(handler, request, entry, body) ==
    [handler |-> handler, request |-> request, entry |-> entry, stored |-> FALSE, body |-> body]

\* `except Exception as e` of predict_sign: it catches whatever the try block
\* raised, the HTTPException of line 230 included, and raises a 500.
predict_sign_except(e) == HTTPException(500, "Error processing sign prediction")

ClassifierIdle ==
    /\ landmarks = None
    /\ pc = "idle"
    /\ idx = 0
    /\ best_gesture = "unknown"
    /\ best_confidence = 0
    /\ confidence = 0
    /\ evaluated = <<>>
    /\ result = None

Init ==
    /\ gestures = RuleBank
    /\ SIGN_ANIMATIONS = SignAnimations
    /\ ClassifierIdle
    /\ conversations = <<>>
    /\ inflight = <<>>
    /\ response = NoResponse
    /\ clock = 0

classifier_vars == <<landmarks, pc, idx, best_gesture, best_confidence, confidence,
                     evaluated, result>>

predict_sign(request_landmarks) ==
    /\ \/ /\ Len(request_landmarks) = 0
          /\ LET e == predict_sign_except(HTTPException(400, "No landmarks provided"))
             IN  response' = [handler |-> "predict_sign", request |-> request_landmarks,
                              status |-> e.status_code, body |-> <<e.detail>>]
          /\ UNCHANGED <<inflight, clock>>
       \/ /\ Len(request_landmarks) # 0
          /\ clock < MaxRequests
          /\ LET prediction == GestureClassifier_predict(gestures, Some(request_landmarks))
                 entry == ConversationEntry(clock + 1, prediction[1], "sign_to_text",
                                            prediction[2])
             IN  inflight' = Append(inflight,
                     Suspended("predict_sign", request_landmarks, entry, prediction))
          /\ clock' = clock + 1
          /\ UNCHANGED response
    /\ UNCHANGED <<gestures, SIGN_ANIMATIONS, classifier_vars, conversations>>

text_to_sign(request_text) ==
    /\ clock < MaxRequests
    /\ LET found == lookup(SIGN_ANIMATIONS, request_text)
           entry == ConversationEntry(clock + 1, request_text, "text_to_sign",
                        IF found[2] THEN SupportedConfidence ELSE UnsupportedConfidence)
       IN  inflight' = Append(inflight,
               Suspended("text_to_sign", request_text, entry,
                         <<found[1], request_text, found[2]>>))
    /\ clock' = clock + 1
    /\ UNCHANGED <<gestures, SIGN_ANIMATIONS, classifier_vars, conversations, response>>

insert_one(k) ==
    /\ k \in 1..Len(inflight)
    /\ ~inflight[k].stored
    /\ conversations' = Append(conversations, inflight[k].entry)
    /\ inflight' = [inflight EXCEPT ![k].stored = TRUE]
    /\ UNCHANGED <<gestures, SIGN_ANIMATIONS, classifier_vars, response, clock>>

\* Mutant: the insert not awaited, the handler returning at once.
respond_unawaited(k) ==
    /\ k \in 1..Len(inflight)
    /\ response' = [handler |-> inflight[k].handler, request |-> inflight[k].request,
                     status |-> 200, body |-> inflight[k].body]
    /\ inflight' = SubSeq(inflight, 1, k - 1) \o SubSeq(inflight, k + 1, Len(inflight))
    /\ UNCHANGED <<gestures, SIGN_ANIMATIONS, classifier_vars, conversations, clock>>

respond(k) ==
    /\ k \in 1..Len(inflight)
    /\ inflight[k].stored
    /\ response' = [handler |-> inflight[k].handler, request |-> inflight[k].request,
                     status |-> 200, body |-> inflight[k].body]
    /\ inflight' = SubSeq(inflight, 1, k - 1) \o SubSeq(inflight, k + 1, Len(inflight))
    /\ UNCHANGED <<gestures, SIGN_ANIMATIONS, classifier_vars, conversations, clock>>

\* find().sort("timestamp", -1): insertion sort, newest first
RECURSIVE sort_timestamp_desc(_)
sort_timestamp_desc(entries) ==
    IF entries = <<>> THEN <<>>
    ELSE LET newest == CHOOSE i \in 1..Len(entries) :
                           \A j \in 1..Len(entries) :
                               entries[j].timestamp <= entries[i].timestamp
         IN  <<entries[newest]>> \o
             sort_timestamp_desc(SubSeq(entries, 1, newest - 1)
                                 \o SubSeq(entries, newest + 1, Len(entries)))

get_conversations ==
    /\ LET found == sort_timestamp_desc(conversations)
       IN  response' = [handler |-> "get_conversations", request |-> <<>>, status |-> 200,
                        body |-> SubSeq(found, 1, Min(Len(found), HistoryLimit))]
    /\ UNCHANGED <<gestures, SIGN_ANIMATIONS, classifier_vars, conversations, inflight,
                   clock>>

clear_conversations ==
    /\ conversations' = <<>>
    /\ response' = [handler |-> "clear_conversations", request |-> <<>>, status |-> 200,
                     body |-> <<Len(conversations)>>]
    /\ UNCHANGED <<gestures, SIGN_ANIMATIONS, classifier_vars, inflight, clock>>

\* Mutant: the listing reverses the rule bank it reads.
get_supported_signs_reversing ==
    /\ response' = [handler |-> "get_supported_signs", request |-> <<>>, status |-> 200,
                     body |-> <<gestures, Len(gestures), Len(SIGN_ANIMATIONS)>>]
    /\ gestures' = [i \in 1..Len(gestures) |-> gestures[Len(gestures) + 1 - i]]
    /\ UNCHANGED <<SIGN_ANIMATIONS, classifier_vars, conversations, inflight, clock>>

get_supported_signs ==
    /\ response' = [handler |-> "get_supported_signs", request |-> <<>>, status |-> 200,
                     body |-> <<gestures, Len(gestures), Len(SIGN_ANIMATIONS)>>]
    /\ UNCHANGED <<gestures, SIGN_ANIMATIONS, classifier_vars, conversations, inflight,
                   clock>>

(***************************************************************************)
(* The requests the server is sent.                                         *)
(***************************************************************************)
ServerPoses ==
    { <<>>,
      <<Filler>>,
      MkPose(TipLayouts[1], [f \in 1..NumTips |-> 0], 29, -1),
      MkPose(TipLayouts[6], [f \in 1..NumTips |-> 5], 70, -1) }

ServerTexts == {
    <<" ", "N", "O", " ">>,
    <<"x", "y", "z", "z", "y">> }

Next ==
    \/ \E request_landmarks \in ServerPoses : predict_sign(request_landmarks)
    \/ \E request_text \in ServerTexts : text_to_sign(request_text)
    \/ \E k \in 1..MaxRequests : insert_one(k)
    \/ \E k \in 1..MaxRequests : respond(k)
    \/ get_conversations
    \/ clear_conversations
    \/ get_supported_signs

Spec == Init /\ [][Next]_vars

(***************************************************************************)
(* One text-to-sign request on an idle server, its text drawn from Texts.   *)
(***************************************************************************)
NextLookup ==
    \/ \E request_text \in Texts : clock = 0 /\ text_to_sign(request_text)
    \/ insert_one(1)
    \/ respond(1)

SpecLookup == Init /\ [][NextLookup]_vars

(***************************************************************************)
(* Vocabulary of the properties below, written from the statements they     *)
(* check: the pose under classification and the geometry the rule table     *)
(* speaks of.                                                               *)
(***************************************************************************)
PoseGiven == landmarks # None
Pose == landmarks[1]
ShortPose == ~PoseGiven \/ Len(Pose) < 21
FullPose == PoseGiven /\ Len(Pose) >= 21
Returned == pc = "done"
Answer == result[1]

Wrist == Pose[1]
Tip(f) == Pose[<<5, 9, 13, 17, 21>>[f]]      \* landmarks 4, 8, 12, 16, 20
Joint(f) == Pose[<<4, 7, 11, 15, 19>>[f]]    \* landmarks 3, 6, 10, 14, 18
Ext(f) == IF f = 1 THEN Tip(f)[1] > Joint(f)[1] ELSE Tip(f)[2] < Joint(f)[2]
NumExt == Cardinality({f \in 1..5 : Ext(f)})
NumExtNonThumb == Cardinality({f \in 2..5 : Ext(f)})

\* All five fingertips closer than 0.1 to their (x, y) centroid, in
\* hundredths and scaled by 5: |5*tip - sum of tips| < 50.  No pose of the
\* model has a fingertip at exactly 0.1 from the centroid.
TipsNearCentroid ==
    LET sx == Tip(1)[1] + Tip(2)[1] + Tip(3)[1] + Tip(4)[1] + Tip(5)[1]
        sy == Tip(1)[2] + Tip(2)[2] + Tip(3)[2] + Tip(4)[2] + Tip(5)[2]
    IN  \A f \in 1..5 :
            (5 * Tip(f)[1] - sx) * (5 * Tip(f)[1] - sx)
          + (5 * Tip(f)[2] - sy) * (5 * Tip(f)[2] - sy) < 50 * 50

Matches(name) ==
    CASE name = "hello"     -> NumExt >= 4
      [] name = "thank_you" -> Wrist[2] < 30
      [] name = "yes"       -> Ext(1) /\ NumExtNonThumb = 0
      [] name = "no"        -> ~Ext(1) /\ Ext(2) /\ ~Ext(3) /\ ~Ext(4) /\ ~Ext(5)
      [] name = "help"      -> NumExt >= 3 /\ Wrist[3] < 0
      [] name = "stop"      -> NumExtNonThumb >= 3
      [] name = "please"    -> NumExt >= 3 /\ 30 < Wrist[2] /\ Wrist[2] < 70
      [] name = "water"     -> NumExt <= 2 /\ Wrist[2] < 40
      [] name = "more"      -> TipsNearCentroid
      [] name = "finished"  -> NumExt >= 3

TableConfidence(name) ==
    CASE name = "hello"     -> 80
      [] name = "thank_you" -> 70
      [] name = "yes"       -> 80
      [] name = "no"        -> 70
      [] name = "help"      -> 60
      [] name = "stop"      -> 70
      [] name = "please"    -> 60
      [] name = "water"     -> 60
      [] name = "more"      -> 70
      [] name = "finished"  -> 50

BankOrder == <<"hello", "thank_you", "yes", "no", "help", "stop", "please",
               "water", "more", "finished">>

\* The running best after the first n rules of BankOrder: the earliest of
\* those with the highest confidence, or the default when none exceeds it.
FirstBest(n) ==
    LET conf == [i \in 1..n |-> check_func(BankOrder[i], Pose)] \o <<>>
        top == {i \in 1..n : conf[i] > 10 /\ \A j \in 1..n : conf[j] <= conf[i]}
    IN  IF top = {} THEN <<"unknown", 10>>
        ELSE LET first == CHOOSE i \in top : \A j \in top : i <= j
             IN  <<BankOrder[first], conf[first]>>

\* C1: a pose that is absent, empty or shorter than 21 landmarks is answered
\* ("unknown", 0.1), and predict never enters the rule loop for it: no rule
\* is evaluated.
C1_ShortPoseUnknown ==
    ShortPose =>
        /\ pc \in {"call", "done"}
        /\ evaluated = <<>>
        /\ Returned => result = Some(<<"unknown", 10>>)

C1_Witness ==
    /\ Returned
    /\ PoseGiven
    /\ Len(Pose) = 20
    /\ result = Some(<<"unknown", 10>>)

\* C2: whatever the pose, the confidence predict returns lies in
\* [0.1, 0.95].
C2_ConfidenceRange ==
    Returned => Answer[2] >= 10 /\ Answer[2] <= 95

C2_Witness ==
    /\ Returned
    /\ FullPose
    /\ Answer[2] = 80

\* C3: on a pose of at least 21 landmarks the running best is, after every
\* loop turn, the earliest rule in bank order among those of highest
\* confidence so far, and predict returns that rule with that confidence.
C3_FirstHighestWins ==
    FullPose =>
        /\ pc = "loop" => <<best_gesture, best_confidence>> = FirstBest(idx - 1)
        /\ Returned => result = Some(FirstBest(10))

C3_Witness ==
    /\ Returned
    /\ FullPose
    /\ Answer = <<"thank_you", 70>>
    /\ check_func("stop", Pose) = 70
    /\ check_func("more", Pose) = 70

C5_OpenHandHello ==
    (FullPose /\ Returned /\ \A f \in 1..5 : Ext(f)) =>
        Answer = <<"hello", 80>>

C5_Witness ==
    /\ FullPose
    /\ Returned
    /\ \A f \in 1..5 : Ext(f)
    /\ Matches("thank_you")
    /\ Matches("more")
    /\ Answer = <<"hello", 80>>

\* The five fingertips within 0.02 of (0.5, 0.5).
TipsAtCentre ==
    \A f \in 1..5 :
        (Tip(f)[1] - 50) * (Tip(f)[1] - 50) + (Tip(f)[2] - 50) * (Tip(f)[2] - 50) <= 2 * 2

\* C6 as stated: with the five fingertips within 0.02 of (0.5, 0.5), predict
\* returns ("more", 0.7) wherever the wrist and the joints are.
C6_AsStated ==
    (FullPose /\ Returned /\ TipsAtCentre) => Answer = <<"more", 70>>

EarlierRules == <<"hello", "thank_you", "yes", "no", "stop">>

\* C6 as amended: with the five fingertips within 0.02 of (0.5, 0.5), predict
\* returns ("more", 0.7) exactly when none of hello, thank_you, yes, no and
\* stop matches; when one does, it returns hello or yes at 0.8 if that
\* matches, and otherwise the first of thank_you, no, stop that matches, at
\* 0.7.
C6_MoreUnlessEarlierRule ==
    (FullPose /\ Returned /\ TipsAtCentre) =>
        IF \A i \in 1..5 : ~Matches(EarlierRules[i])
        THEN Answer = <<"more", 70>>
        ELSE IF Matches("hello") THEN Answer = <<"hello", 80>>
        ELSE IF Matches("yes") THEN Answer = <<"yes", 80>>
        ELSE IF Matches("thank_you") THEN Answer = <<"thank_you", 70>>
        ELSE IF Matches("no") THEN Answer = <<"no", 70>>
        ELSE Answer = <<"stop", 70>>

C6_Witness ==
    /\ FullPose
    /\ Returned
    /\ TipsAtCentre
    /\ Matches("finished")
    /\ Matches("help")
    /\ Answer = <<"more", 70>>

\* C9: on a pose of at least 21 landmarks predict never answers "unknown":
\* the name is one of the ten rules and the confidence at least 0.2, and a
\* pose matching no rule is answered ("hello", 0.2).
C9_NeverUnknown ==
    (FullPose /\ Returned) =>
        /\ Answer[1] # "unknown"
        /\ \E i \in 1..10 : Answer[1] = BankOrder[i]
        /\ Answer[2] >= 20
        /\ (\A i \in 1..10 : ~Matches(BankOrder[i])) => Answer = <<"hello", 20>>

C9_Witness ==
    /\ FullPose
    /\ Returned
    /\ \A i \in 1..10 : ~Matches(BankOrder[i])
    /\ Answer = <<"hello", 20>>

\* The predict answers the state holds: those of the suspended handlers and
\* the last response when it is a successful predict response.
PredictAnswers ==
    {<<inflight[k].request, inflight[k].body>> :
        k \in {j \in 1..Len(inflight) : inflight[j].handler = "predict_sign"}}
    \cup (IF response.handler = "predict_sign" /\ response.status = 200
          THEN {<<response.request, response.body>>} ELSE {})

\* What predict answers for each server pose on the rule bank built at
\* start-up.
StartAnswers == {<<p, GestureClassifier_predict(RuleBank, Some(p))>> : p \in ServerPoses}

\* C7: in every reachable state of the server the rule bank and the phrase
\* catalog are those built at start-up, predict on the state's rule bank
\* answers each pose as it did at start-up, and every predict answer held in
\* the state is the start-up answer for its pose, so that two answers for
\* one pose agree.
C7_SameAnswerEveryState ==
    /\ gestures = RuleBank
    /\ SIGN_ANIMATIONS = SignAnimations
    /\ \A pa \in StartAnswers : GestureClassifier_predict(gestures, Some(pa[1])) = pa[2]
    /\ \A a \in PredictAnswers : a \in StartAnswers
    /\ \A a, b \in PredictAnswers : a[1] = b[1] => a[2] = b[2]

\* The same pose answered twice, the log cleared between the two requests.
C7_Witness ==
    /\ response.handler = "predict_sign"
    /\ response.status = 200
    /\ Len(response.request) >= 21
    /\ Len(inflight) = 1
    /\ inflight[1].handler = "predict_sign"
    /\ inflight[1].request = response.request
    /\ inflight[1].body = response.body
    /\ ~inflight[1].stored
    /\ conversations = <<>>

PhraseOrder == <<
    <<"h", "e", "l", "l", "o">>,
    <<"t", "h", "a", "n", "k", " ", "y", "o", "u">>,
    <<"y", "e", "s">>,
    <<"n", "o">>,
    <<"h", "e", "l", "p">>,
    <<"s", "t", "o", "p">>,
    <<"p", "l", "e", "a", "s", "e">>,
    <<"w", "a", "t", "e", "r">>,
    <<"m", "o", "r", "e">>,
    <<"f", "i", "n", "i", "s", "h", "e", "d">>,
    <<"g", "o", "o", "d", " ", "m", "o", "r", "n", "i", "n", "g">>,
    <<"h", "o", "w", " ", "a", "r", "e", " ", "y", "o", "u">>,
    <<"i", " ", "a", "m", " ", "f", "i", "n", "e">>,
    <<"n", "i", "c", "e", " ", "t", "o", " ", "m", "e", "e", "t", " ", "y", "o", "u">> >>

KeyFor(phrase) ==
    SignAnimations[CHOOSE i \in 1..Len(SignAnimations) : SignAnimations[i][1] = phrase][2]

\* C8: the text-to-sign response carries the key of the catalog phrase equal
\* to the lower-cased, trimmed text when there is one; otherwise the key of
\* the first phrase, in catalog order, that is a substring of the text or of
\* which the text is a substring, with supported = true; and
\* "not_supported.gif" with supported = false exactly when no phrase passes
\* either test.
C8_Lookup ==
    response.handler = "text_to_sign" =>
        LET t == str_strip(str_lower(response.request))
            exact == {i \in 1..14 : PhraseOrder[i] = t}
            partial == {i \in 1..14 : str_in(PhraseOrder[i], t) \/ str_in(t, PhraseOrder[i])}
            first == CHOOSE i \in partial : \A j \in partial : i <= j
        IN  /\ exact # {} =>
                   /\ response.body[1] = KeyFor(t)
                   /\ response.body[3] = TRUE
            /\ (exact = {} /\ partial # {}) =>
                   /\ response.body[1] = KeyFor(PhraseOrder[first])
                   /\ response.body[3] = TRUE
            /\ (response.body[1] = "not_supported.gif" /\ response.body[3] = FALSE)
                   <=> (exact = {} /\ partial = {})

C8_Witness ==
    /\ response.handler = "text_to_sign"
    /\ response.request = <<"i", " ", "w", "o", "u", "l", "d", " ", "l", "i", "k", "e", " ", "s", "o", "m", "e", " ", "w", "a", "t", "e", "r", " ", "p", "l", "e", "a", "s", "e">>
    /\ response.body[1] = "please_gesture.gif"
    /\ response.body[3] = TRUE

EmptyPredictResponse(r) == r.handler = "predict_sign" /\ Len(r.request) = 0

\* C10 as stated: a predict request with an empty landmarks list is answered
\* with status 400, "No landmarks provided", and stores no conversation
\* entry.
C10_EmptyLandmarks400 ==
    [][(EmptyPredictResponse(response') /\ ~EmptyPredictResponse(response)) =>
          /\ response'.status = 400
          /\ response'.body = <<"No landmarks provided">>
          /\ conversations' = conversations
          /\ inflight' = inflight
          /\ clock' = clock]_vars

\* Two entries with the same fields (entries of one type carry messages of
\* one kind, so the type is compared before the message).
SameEntry(e, f) ==
    /\ e.id = f.id
    /\ e.type = f.type
    /\ e.confidence = f.confidence
    /\ e.timestamp = f.timestamp
    /\ e.message = f.message

LogIds(log) == {log[i].id : i \in 1..Len(log)}

\* A step leaves the log as it is, adds the one entry of a handler waiting
\* at its insert, or empties it in a clear-conversations request.
LogStep ==
    LET old == Len(conversations)
        new == Len(conversations')
    IN  \/ /\ new = old
           /\ \A i \in 1..old : SameEntry(conversations'[i], conversations[i])
        \/ /\ new = old + 1
           /\ \A i \in 1..old : SameEntry(conversations'[i], conversations[i])
           /\ conversations'[new].id \notin LogIds(conversations)
           /\ Len(inflight') = Len(inflight)
           /\ \E k \in 1..Len(inflight) :
                  /\ ~inflight[k].stored
                  /\ inflight'[k].stored
                  /\ SameEntry(conversations'[new], inflight[k].entry)
                  /\ \A j \in 1..Len(inflight) :
                         j # k => inflight'[j].stored = inflight[j].stored
        \/ /\ new < old
           /\ new = 0
           /\ response'.handler = "clear_conversations"
           /\ response'.body = <<old>>

\* A handler leaves only by returning its response, after its entry was
\* stored; a handler that stays keeps its entry and does not store it again.
HandlerStep ==
    /\ \A k \in 1..Len(inflight) :
           (\A j \in 1..Len(inflight') : inflight'[j].entry.id # inflight[k].entry.id) =>
               /\ inflight[k].stored
               /\ response'.status = 200
               /\ response'.handler = inflight[k].handler
               /\ response'.body = inflight[k].body
    /\ \A k \in 1..Len(inflight) : \A j \in 1..Len(inflight') :
           inflight'[j].entry.id = inflight[k].entry.id =>
               /\ SameEntry(inflight'[j].entry, inflight[k].entry)
               /\ inflight[k].stored => inflight'[j].stored
    /\ \A j \in 1..Len(inflight') :
           (\A k \in 1..Len(inflight) : inflight'[j].entry.id # inflight[k].entry.id) =>
               /\ ~inflight'[j].stored
               /\ inflight'[j].entry.id \notin LogIds(conversations')

\* C11: under every interleaving of the requests, an entry is written to the
\* log exactly once, by the handler that built it and before that handler
\* returns its response; the entries in the log never change; and entries
\* leave the log only in a clear-conversations request, which removes all
\* of them together.
C11_WriteOnceClearAll == [][LogStep /\ HandlerStep]_vars

\* Both requests answered, the first one's entry cleared before the second
\* was stored.
C11_Witness ==
    /\ clock = 2
    /\ inflight = <<>>
    /\ response.status = 200
    /\ response.handler \in {"predict_sign", "text_to_sign"}
    /\ Len(conversations) = 1
    /\ conversations[1].id = 2

=============================================================================
